---------------------------- MODULE Spec2Model ----------------------------
(***************************************************************************)
(* A model of pkg/audit.c: the advisory parser (parse_pattern, parse_db),  *)
(* the prefix index (str_noglob_len, audit_entry_compare, preprocess_db),  *)
(* the version matcher (match_version), the query (is_vulnerable), the     *)
(* fetcher (fetch_and_extract) and the driver (exec_audit).                *)
(*                                                                         *)
(* C strings are sequences of byte codes without the terminating NUL; a    *)
(* NULL char pointer is the value NULL.  An audit_entry pointer is an      *)
(* index into the list h (1-based), the NULL entry pointer is 0.           *)
(***************************************************************************)
EXTENDS Integers, Sequences, FiniteSets, TLC

VARIABLES
    pc,          \* position of the modelled run
    line,        \* SpecParse: the advisory line read by getline()
    h,           \* struct audit_head: the parsed entries, head first
    ret,         \* the audit_entry_sorted array (0-based function), sentinel included
    fbi,         \* audit_entry_first_byte_idx[256], as stretches of equal indexes
    oob,         \* TRUE once a step accessed the sorted array outside its n+1 elements
    pkg,         \* the package handed to is_vulnerable / match_version
    q,           \* what the last is_vulnerable / match_version call did and returned
    run,         \* SpecExec: the inputs and locals of the current exec_audit run
    res,         \* SpecExec: handles and files held by the process
    seen         \* SpecExec: the (outcome, status) pairs of the finished runs

vars == <<pc, line, h, ret, fbi, oob, pkg, q, run, res, seen>>

---------------------------------------------------------------------------
(* Byte codes of the characters the code tests for.                        *)
NUL == 0
NL == 10
HASH == 35
STAR == 42
CH_LT == 60
CH_EQ == 61
CH_GT == 62
QMARK == 63
LBRACKET == 91
BACKSLASH == 92
LBRACE == 123
PIPE == 124

(* The bytes names and versions are made of: two digits, two letters, and  *)
(* a byte above 127 such as the first byte of a UTF-8 sequence.            *)
CH_1 == 49
CH_2 == 50
CH_a == 97
CH_b == 98
CH_hi == 195

(* The comparator types of a version_entry.                                *)
EQ == 1
LT == 2
LTE == 3
GT == 4
GTE == 5

(* A NULL char pointer: no C string holds a negative byte.                 *)
NULL == << -1 >>

---------------------------------------------------------------------------
(* libc string functions, as the code uses them.                           *)

(* s[i] of a C string, 0-based: the terminating NUL at and past its end.   *)
CharAt(s, i) == IF i < Len(s) THEN s[i + 1] ELSE NUL

RECURSIVE strncmp_from(_, _, _, _)
strncmp_from(s1, s2, i, n) ==
    IF i >= n THEN 0
    ELSE LET c1 == CharAt(s1, i)
             c2 == CharAt(s2, i)
         IN  IF c1 # c2 THEN (IF c1 < c2 THEN -1 ELSE 1)
             ELSE IF c1 = NUL THEN 0
             ELSE strncmp_from(s1, s2, i + 1, n)

(* strncmp(s1, s2, n): the sign of the first difference within n bytes.    *)
strncmp(s1, s2, n) == strncmp_from(s1, s2, 0, n)

(* strcmp(s1, s2).                                                         *)
strcmp(s1, s2) == strncmp_from(s1, s2, 0, Len(s1) + Len(s2) + 1)

RECURSIVE strndup_from(_, _, _)
strndup_from(buf, start, n) ==
    IF n <= 0 \/ CharAt(buf, start) = NUL THEN << >>
    ELSE << CharAt(buf, start) >> \o strndup_from(buf, start + 1, n - 1)

(* strndup(buf + start, n): at most n bytes, cut at the first NUL.         *)
strndup(buf, start, n) == strndup_from(buf, start, n)

(* strdup(buf + start).                                                    *)
strdup(buf, start) == strndup_from(buf, start, Len(buf) + 1)

RECURSIVE fnmatch_at(_, _, _, _)
fnmatch_at(p, s, i, j) ==
    IF i > Len(p) THEN j > Len(s)
    ELSE IF p[i] = STAR
         THEN fnmatch_at(p, s, i + 1, j)
              \/ (j <= Len(s) /\ fnmatch_at(p, s, i, j + 1))
    ELSE IF p[i] = QMARK
         THEN j <= Len(s) /\ fnmatch_at(p, s, i + 1, j + 1)
    ELSE IF p[i] = BACKSLASH /\ i < Len(p)
         THEN j <= Len(s) /\ p[i + 1] = s[j] /\ fnmatch_at(p, s, i + 2, j + 1)
    ELSE j <= Len(s) /\ p[i] = s[j] /\ fnmatch_at(p, s, i + 1, j + 1)

(* fnmatch(pattern, string, 0) for patterns of literals, '*', '?' and      *)
(* backslash escapes: 0 on a match, FNM_NOMATCH (non-zero) otherwise.      *)
fnmatch(p, s) == IF fnmatch_at(p, s, 1, 1) THEN 0 ELSE 1

---------------------------------------------------------------------------
(* The version matcher.                                                    *)

(* pkg_version_cmp(a, b) of libpkg: a three-way comparison, -1, 0 or 1.    *)
pkg_version_cmp(a, b) == strcmp(a, b)

(* match_version with the equal case forgetting GTE.                       *)
match_version_noGTE(pkgversion, v) ==
    IF v.version = NULL THEN TRUE
    ELSE LET c == pkg_version_cmp(pkgversion, v.version)
         IN  CASE c = -1 -> v.type = LT \/ v.type = LTE
               [] c = 0  -> v.type = EQ \/ v.type = LTE
               [] c = 1  -> v.type = GT \/ v.type = GTE
               [] OTHER  -> FALSE

match_version(pkgversion, v) ==
    IF v.version = NULL THEN TRUE
    ELSE LET c == pkg_version_cmp(pkgversion, v.version)
         IN  CASE c = -1 -> v.type = LT \/ v.type = LTE
               [] c = 0  -> v.type = EQ \/ v.type = LTE \/ v.type = GTE
               [] c = 1  -> v.type = GT \/ v.type = GTE
               [] OTHER  -> FALSE

---------------------------------------------------------------------------
(* The advisory parser.                                                    *)

(* calloc(1, sizeof(struct audit_entry)): every pointer NULL, types 0.     *)
calloc_entry ==
    [pkgname |-> NULL,
     v1 |-> [version |-> NULL, type |-> 0],
     v2 |-> [version |-> NULL, type |-> 0],
     url |-> NULL, desc |-> NULL]

(* The comparator starting at pattern[i], 0 when there is none.            *)
type_at(pattern, i) ==
    LET c == CharAt(pattern, i)
        n == CharAt(pattern, i + 1)
    IN  IF c = CH_EQ THEN EQ
        ELSE IF c = CH_LT THEN (IF n = CH_EQ THEN LTE ELSE LT)
        ELSE IF c = CH_GT THEN (IF n = CH_EQ THEN GTE ELSE GT)
        ELSE 0

(* 1 when the comparator at pattern[i] is two bytes long.                  *)
skipnext_at(pattern, i) ==
    IF CharAt(pattern, i) \in {CH_LT, CH_GT} /\ CharAt(pattern, i + 1) = CH_EQ
    THEN 1 ELSE 0

(* *dest = s, dest being &e->pkgname, &e->v1.version or &e->v2.version.    *)
store(e, dest, s) ==
    IF dest = "pkgname" THEN [e EXCEPT !.pkgname = s]
    ELSE [e EXCEPT ![dest].version = s]

(* The loop of parse_pattern from position i: start, dest and v are the    *)
(* locals of the same names, v naming the version_entry it points to.      *)
RECURSIVE parse_pattern_loop(_, _, _, _, _, _, _)
parse_pattern_loop(e, pattern, len, i, start, dest, v) ==
    IF i >= len THEN e
    ELSE LET type == type_at(pattern, i)
             skipnext == skipnext_at(pattern, i)
             e1 == IF type # 0 THEN [e EXCEPT ![v].type = type] ELSE e
             next_dest == IF type # 0 THEN v ELSE "none"
             v1 == IF type # 0 THEN "v2" ELSE v
         IN  IF next_dest # "none" \/ i = len - 1
             THEN parse_pattern_loop(store(e1, dest, strndup(pattern, start, i - start)),
                                     pattern, len, i + skipnext + 1,
                                     i + skipnext + 1, next_dest, v1)
             ELSE parse_pattern_loop(e1, pattern, len, i + 1, start, dest, v1)

(* parse_pattern(e, pattern, len): pattern is the buffer the column starts *)
(* in, len the length the caller passes.                                   *)
parse_pattern(e, pattern, len) ==
    parse_pattern_loop(e, pattern, len, 0, 0, "pkgname", "v1")

(* The 0-based positions of the '|' bytes of a line, in order.             *)
RECURSIVE pipes_from(_, _)
pipes_from(l, i) ==
    IF i >= Len(l) THEN << >>
    ELSE (IF l[i + 1] = PIPE THEN << i >> ELSE << >>) \o pipes_from(l, i + 1)

(* The line buffer once strsep() has returned its k-th column (k >= 1):    *)
(* the first k '|' bytes, those there are, overwritten by NUL.             *)
strsep_buffer(l, k) ==
    LET ps == pipes_from(l, 0)
    IN  [i \in 1..Len(l) |->
            IF \E j \in 1..Len(ps) : j <= k /\ ps[j] = i - 1 THEN NUL ELSE l[i]]

(* The start of column k (0-based) of a line, -1 when strsep() returns     *)
(* NULL before reaching it.                                                *)
column_start(l, k) ==
    LET ps == pipes_from(l, 0)
    IN  IF k = 0 THEN 0 ELSE IF k <= Len(ps) THEN ps[k] + 1 ELSE -1

(* The body of parse_db's getline loop for one line that is no comment:    *)
(* column 0 goes to parse_pattern with the length of the whole line,       *)
(* columns 1 and 2 are copied into url and desc.                           *)
parse_line(l) ==
    LET e0 == parse_pattern(calloc_entry, strsep_buffer(l, 1), Len(l))
        e1 == IF column_start(l, 1) >= 0
              THEN [e0 EXCEPT !.url = strdup(strsep_buffer(l, 2), column_start(l, 1))]
              ELSE e0
    IN  IF column_start(l, 2) >= 0
        THEN [e1 EXCEPT !.desc = strdup(strsep_buffer(l, 3), column_start(l, 2))]
        ELSE e1

(* parse_db on an opened file, a sequence of lines as getline() returns    *)
(* them: comment lines are skipped, every other line is parsed and         *)
(* inserted at the head of the list.                                       *)
RECURSIVE parse_db_lines(_, _)
parse_db_lines(file, head) ==
    IF file = << >> THEN head
    ELSE IF Head(file)[1] = HASH THEN parse_db_lines(Tail(file), head)
    ELSE parse_db_lines(Tail(file), << parse_line(Head(file)) >> \o head)

---------------------------------------------------------------------------
(* The prefix index.  H is the list of entries the pointers refer to; an   *)
(* element of the sorted array is [e, noglob_len, next_pfx_incr].          *)

(* The bytes that end the prefix without globbing characters.              *)
GlobChars == {STAR, QMARK, LBRACKET, LBRACE, BACKSLASH}

RECURSIVE str_noglob_len_from(_, _)
str_noglob_len_from(s, n) ==
    IF CharAt(s, n) # NUL /\ CharAt(s, n) \notin GlobChars
    THEN str_noglob_len_from(s, n + 1)
    ELSE n

str_noglob_len(s) == str_noglob_len_from(s, 0)

(* audit_entry_compare without the tie-break on the prefix lengths.        *)
audit_entry_compare_notie(H, e1, e2) ==
    LET min_len == IF e1.noglob_len < e2.noglob_len
                   THEN e1.noglob_len ELSE e2.noglob_len
    IN  strncmp(H[e1.e].pkgname, H[e2.e].pkgname, min_len)

audit_entry_compare(H, e1, e2) ==
    LET min_len == IF e1.noglob_len < e2.noglob_len
                   THEN e1.noglob_len ELSE e2.noglob_len
        result == strncmp(H[e1.e].pkgname, H[e2.e].pkgname, min_len)
    IN  IF result = 0
        THEN (IF e1.noglob_len < e2.noglob_len THEN -1
              ELSE IF e1.noglob_len > e2.noglob_len THEN 1
              ELSE result)
        ELSE result

(* The zeroed element calloc() and bzero() leave: the NULL sentinel.       *)
zero_slot == [e |-> 0, noglob_len |-> 0, next_pfx_incr |-> 0]

(* The array after the copy loop: element k-1 points to the k-th entry of  *)
(* the list with next_pfx_incr 1, element n is the sentinel.               *)
fill_array(H) ==
    [k \in 0..Len(H) |->
        IF k < Len(H)
        THEN [e |-> k + 1,
              noglob_len |-> str_noglob_len(H[k + 1].pkgname),
              next_pfx_incr |-> 1]
        ELSE zero_slot]

(* What qsort() requires of its comparator on the n elements it sorts: it  *)
(* is antisymmetric in sign and transitive.                                *)
consistent_compare(H, arr, n) ==
    /\ \A i, j \in 0..(n - 1) :
          audit_entry_compare(H, arr[i], arr[j]) = -audit_entry_compare(H, arr[j], arr[i])
    /\ \A i, j, k \in 0..(n - 1) :
          (audit_entry_compare(H, arr[i], arr[j]) <= 0
           /\ audit_entry_compare(H, arr[j], arr[k]) <= 0)
             => audit_entry_compare(H, arr[i], arr[k]) <= 0

(* qsort() of the first n elements by audit_entry_compare: the arrays it   *)
(* may leave.  With a consistent comparator it is some permutation of the  *)
(* first n elements in which no element compares greater than its          *)
(* successor (the order of elements that compare equal is unspecified);    *)
(* with an inconsistent one the order it leaves is unspecified.            *)
qsort(H, arr, n) ==
    LET place(f) == [k \in DOMAIN arr |-> IF k < n THEN arr[f[k + 1] - 1] ELSE arr[k]]
        all == { place(f) : f \in Permutations(1..n) }
    IN  IF consistent_compare(H, arr, n)
        THEN { a \in all : \A k \in 0..(n - 2) :
                              audit_entry_compare(H, a[k], a[k + 1]) <= 0 }
        ELSE all

(* The inner loop of the increments: for (i = 0; tofill > 1; i++,          *)
(* tofill--) base[i].next_pfx_incr = tofill.                               *)
RECURSIVE fill_incr(_, _, _, _)
fill_incr(arr, base, i, tofill) ==
    IF tofill > 1
    THEN fill_incr([arr EXCEPT ![base + i].next_pfx_incr = tofill],
                   base, i + 1, tofill - 1)
    ELSE arr

(* The loop that determines the jump indexes, from element n on: N is the  *)
(* number of entries, so that the array holds elements 0..N.  The result   *)
(* is [arr, oob]: oob when the loop read an element past the array.        *)
RECURSIVE incr_loop(_, _, _, _, _)
incr_loop(H, arr, N, n, tofill) ==
    IF n > N THEN [arr |-> arr, oob |-> TRUE]
    ELSE IF arr[n].e = 0 THEN [arr |-> arr, oob |-> FALSE]
    ELSE IF arr[n - 1].noglob_len # arr[n].noglob_len
         THEN incr_loop(H, fill_incr(arr, n - tofill, 0, tofill), N, n + 1, 1)
    ELSE IF strcmp(H[arr[n - 1].e].pkgname, H[arr[n].e].pkgname) = 0
         THEN incr_loop(H, arr, N, n + 1, tofill + 1)
    ELSE incr_loop(H, arr, N, n + 1, 1)

(* (size_t)(s[0]) of a char pointer s.  Whether plain char is signed is    *)
(* the build's choice: where it is, a byte above 127 is a negative char and *)
(* converts to 2^64 - 256 + the byte, for which the negative number         *)
(* byte - 256 stands here.                                                  *)
first_byte(s, char_signed) ==
    IF char_signed /\ CharAt(s, 0) >= 128 THEN CharAt(s, 0) - 256 ELSE CharAt(s, 0)

(* x < n for a size_t x as first_byte gives it and 0 < n < 256.            *)
size_t_less(x, n) == x >= 0 /\ x < n

(* The while loop of the first-byte table: from i, the first element that  *)
(* is the sentinel or whose name starts with a byte >= n.                  *)
RECURSIVE first_byte_skip(_, _, _, _, _)
first_byte_skip(H, arr, i, n, char_signed) ==
    IF arr[i].e # 0 /\ size_t_less(first_byte(H[arr[i].e].pkgname, char_signed), n)
    THEN first_byte_skip(H, arr, i + 1, n, char_signed)
    ELSE i

(* audit_entry_first_byte_idx[256] while it is calculated: a sequence of   *)
(* 256 indexes, the one of byte value b at place b + 1.                    *)
zero_array == [b \in 1..256 |-> 0]

(* The for loop of the first-byte table over the byte values n..last: i is *)
(* the index the loop carries from one byte value to the next (it never    *)
(* passes the sentinel, element Len(H)), idx the table so far.             *)
RECURSIVE first_byte_loop(_, _, _, _, _, _, _)
first_byte_loop(H, arr, n, last, i, idx, char_signed) ==
    IF n > last \/ i > Len(H) \/ Len(idx) # 256 THEN [i |-> i, idx |-> idx]
    ELSE LET i1 == first_byte_skip(H, arr, i, n, char_signed)
         IN  first_byte_loop(H, arr, n + 1, last, i1, [idx EXCEPT ![n + 1] = i1],
                             char_signed)

(* bzero(audit_entry_first_byte_idx) and the loop over the byte values     *)
(* 1..255, taken in sixteen stretches of sixteen byte values.              *)
first_byte_idx(H, arr, char_signed) ==
    LET step(st, k) == first_byte_loop(H, arr, IF k = 0 THEN 1 ELSE 16 * k,
                                       16 * k + 15, st.i, st.idx, char_signed)
        s0 == [i |-> 0, idx |-> zero_array]
        s4 == step(step(step(step(s0, 0), 1), 2), 3)
        s8 == step(step(step(step(s4, 4), 5), 6), 7)
        s12 == step(step(step(step(s8, 8), 9), 10), 11)
    IN  step(step(step(step(s12, 12), 13), 14), 15).idx

(* The table as the state holds it: the set of its stretches of equal      *)
(* indexes, [first, last, idx] saying that the elements first..last hold   *)
(* idx.  table_at(t, b) is the element of byte value b.                    *)
stretches(idx) ==
    LET starts == {0} \cup { b \in 1..255 : idx[b + 1] # idx[b] }
        last(c) == IF \E d \in starts : d > c
                   THEN (CHOOSE d \in starts :
                            d > c /\ \A x \in starts : x > c => d <= x) - 1
                   ELSE 255
    IN  { [first |-> c, last |-> last(c), idx |-> idx[c + 1]] : c \in starts }

zero_table == stretches(zero_array)

table_at(t, b) == (CHOOSE s \in t : s.first <= b /\ b <= s.last).idx

(* preprocess_db(h) on a build where plain char is signed or is not: the   *)
(* outcomes it may have, [ret, fbi, oob, crashed].                         *)
(* With no entry the loop of the increments starts by reading element 1 of *)
(* a one-element array: what it reads there is not defined, and either it  *)
(* takes it for the sentinel and goes on, or it takes it for an element    *)
(* and follows the pointers in it.                                         *)
preprocess_db(H, char_signed) ==
    LET N == Len(H)
    IN  UNION { LET r == incr_loop(H, sorted, N, 1, 0)
                IN  IF r.oob
                    THEN { [ret |-> r.arr, fbi |-> stretches(first_byte_idx(H, r.arr, char_signed)),
                            oob |-> TRUE, crashed |-> FALSE],
                           [ret |-> r.arr, fbi |-> zero_table,
                            oob |-> TRUE, crashed |-> TRUE] }
                    ELSE { [ret |-> r.arr, fbi |-> stretches(first_byte_idx(H, r.arr, char_signed)),
                            oob |-> FALSE, crashed |-> FALSE] }
              : sorted \in qsort(H, fill_array(H), N) }

---------------------------------------------------------------------------
(* The query.                                                              *)

(* The inner loop of is_vulnerable over the slots a[0..next_pfx_incr-1]:   *)
(* the entries of those slots that fnmatch() the name and whose two        *)
(* version checks both return true.  Slots past the array or holding the   *)
(* NULL pointer are left to the caller to flag.                            *)
inspect(H, arr, N, a, pkgname, pkgversion) ==
    { arr[a + i].e : i \in { k \in 0..(arr[a].next_pfx_incr - 1) :
          /\ a + k <= N
          /\ arr[a + k].e # 0
          /\ fnmatch(H[arr[a + k].e].pkgname, pkgname) = 0
          /\ match_version(pkgversion, H[arr[a + k].e].v1)
          /\ match_version(pkgversion, H[arr[a + k].e].v2) } }

(* The outer loop of is_vulnerable from position a.  st is what the call   *)
(* did so far: the entries reported, the positions the loop stood on, the  *)
(* slots the inner loop read, oob once a position or slot lay outside the  *)
(* real entries, overrun once the loop made more than N steps.             *)
RECURSIVE scan(_, _, _, _, _, _, _)
scan(H, arr, N, a, pkgname, pkgversion, st) ==
    IF a > N THEN [st EXCEPT !.oob = TRUE]
    ELSE IF arr[a].e = 0 THEN st
    ELSE IF Len(st.visited) >= N THEN [st EXCEPT !.overrun = TRUE]
    ELSE LET cmp == strncmp(pkgname, H[arr[a].e].pkgname, arr[a].noglob_len)
             st1 == [st EXCEPT !.visited = Append(@, a)]
             slots == { a + i : i \in 0..(arr[a].next_pfx_incr - 1) }
         IN  IF cmp > 0
             THEN scan(H, arr, N, a + arr[a].next_pfx_incr, pkgname, pkgversion, st1)
             ELSE IF cmp < 0 THEN st1
             ELSE scan(H, arr, N, a + arr[a].next_pfx_incr, pkgname, pkgversion,
                       [st1 EXCEPT
                          !.reported = @ \cup inspect(H, arr, N, a, pkgname, pkgversion),
                          !.inspected = @ \cup slots,
                          !.oob = @ \/ (\E x \in slots : x >= N)])

(* is_vulnerable(a, pkg): the outcomes the call may have.  The scan starts *)
(* at audit_entry_first_byte_idx[(size_t)pkgname[0]]; an index outside     *)
(* 0..255 reads outside the table (wild), and what is read there is not    *)
(* defined: any position, N + 1 standing for every one past the array.     *)
(* res is the value returned; nullarg tells that an entry reported has no  *)
(* desc or no url, which without -q are printed with %s.                   *)
is_vulnerable(H, arr, idx, p, char_signed) ==
    LET N == Len(H)
        b == first_byte(p.name, char_signed)
        wild == b \notin 0..255
        outcome(start) ==
            LET st == scan(H, arr, N, start, p.name, p.version,
                           [reported |-> {}, visited |-> << >>, inspected |-> {},
                            oob |-> FALSE, overrun |-> FALSE])
            IN  [res |-> st.reported # {}, reported |-> st.reported,
                 start |-> start, wild |-> wild,
                 visited |-> st.visited, inspected |-> st.inspected,
                 oob |-> st.oob, overrun |-> st.overrun,
                 nullarg |-> \E i \in st.reported :
                                H[i].desc = NULL \/ H[i].url = NULL]
    IN  IF wild THEN { outcome(start) : start \in 0..(N + 1) }
        ELSE { outcome(table_at(idx, b)) }

---------------------------------------------------------------------------
(* Bounds and input sets.                                                  *)

(* The most entries of an advisory list.                                   *)
MaxEntries == 4
(* The most bytes of an advisory line before its newline.                  *)
MaxLineLen == 4
(* The most bytes of a version string handed to match_version.             *)
MaxVerLen == 1

(* The strings over an alphabet of at most n bytes.                        *)
Strings(alphabet, n) == UNION { [1..k -> alphabet] : k \in 0..n }

absent == [version |-> NULL, type |-> 0]
bound(type, version) == [version |-> version, type |-> type]

(* A parsed advisory for a name pattern and two bounds.                    *)
advisory(name, v1, v2) ==
    [pkgname |-> name, v1 |-> v1, v2 |-> v2,
     url |-> << CH_a >>, desc |-> << CH_b, NL >>]

(* The advisories a list is drawn from, in a fixed order: the empty name,  *)
(* literal names of which one is a strict prefix of another, patterns that *)
(* share a literal prefix, a pattern that starts with a globbing           *)
(* character, and two advisories with bounds.                              *)
Candidates ==
    << advisory(<< >>, absent, absent),
       advisory(<< STAR, CH_b >>, absent, absent),
       advisory(<< CH_a >>, absent, absent),
       advisory(<< CH_a >>, bound(GTE, << CH_1 >>), bound(LT, << CH_2 >>)),
       advisory(<< CH_a, STAR >>, absent, absent),
       advisory(<< CH_a, CH_b >>, absent, absent),
       advisory(<< CH_a, CH_b >>, bound(EQ, << CH_2 >>), absent),
       advisory(<< CH_a, CH_b, STAR >>, absent, absent),
       advisory(<< CH_b >>, absent, absent),
       advisory(<< CH_b, CH_b >>, absent, absent) >>

(* The advisory lists: one list for every multiset of at most MaxEntries   *)
(* candidates.  qsort() may leave entries that compare equal in any order, *)
(* so the order of the list does not restrict the arrays preprocess_db     *)
(* can produce.                                                            *)
Databases ==
    UNION { { [i \in 1..k |-> Candidates[f[i]]] :
              f \in { g \in [1..k -> 1..Len(Candidates)] :
                        \A i \in 1..(k - 1) : g[i] <= g[i + 1] } }
            : k \in 0..MaxEntries }

(* The packages queried: every name at one version, and at a second one    *)
(* the names for which an advisory has bounds.                             *)
Packages ==
    { [name |-> n, version |-> << CH_1 >>] :
        n \in { << >>, << CH_a >>, << CH_b >>, << CH_a, CH_b >>,
                << CH_b, CH_b >>, << CH_b, CH_a >>, << CH_hi, CH_a >> } }
    \cup { [name |-> n, version |-> << CH_2 >>] :
             n \in { << CH_a >>, << CH_a, CH_b >> } }

(* The advisory lines: at most MaxLineLen bytes, a '#' only in front, and  *)
(* the newline, which the last line of a file may lack.                    *)
LineAlphabet == {CH_a, CH_1, CH_LT, CH_GT, CH_EQ, PIPE}
Lines ==
    { l \in { body \o tail :
                body \in Strings(LineAlphabet, MaxLineLen)
                         \cup { << HASH >> \o t : t \in Strings({CH_a, PIPE}, 1) },
                tail \in { << NL >>, << >> } } : Len(l) > 0 }

(* The version strings and the bounds match_version is applied to.         *)
Versions == Strings({CH_1, CH_2}, MaxVerLen)
VersionEntries ==
    { bound(t, v) : t \in 0..GTE, v \in Versions \cup {NULL} }

---------------------------------------------------------------------------
(* The state machine.                                                      *)

none == "none"

(* preprocess_db(&h): sorts, calculates the increments and the first-byte  *)
(* table.                                                                  *)
Preprocess ==
    /\ pc = "parsed"
    /\ \E char_signed \in BOOLEAN : \E r \in preprocess_db(h, char_signed) :
          /\ ret' = r.ret
          /\ fbi' = r.fbi
          /\ oob' = r.oob
          /\ pc' = IF r.crashed THEN "crashed" ELSE "indexed"
    /\ UNCHANGED <<line, h, pkg, q, run, res, seen>>

(* is_vulnerable(cooked_audit_entries, pkg) for some package: the call    *)
(* changes nothing a later call reads, so one call follows the index.      *)
Query ==
    /\ pc = "indexed"
    /\ \E p \in Packages, char_signed \in BOOLEAN :
          \E r \in is_vulnerable(h, ret, fbi, p, char_signed) :
             /\ pkg' = p
             /\ q' = r
             /\ oob' = (oob \/ r.oob)
    /\ pc' = "queried"
    /\ UNCHANGED <<line, h, ret, fbi, run, res, seen>>

(* The body of parse_db's loop on the line getline() returned.             *)
ParseLine ==
    /\ pc = "line"
    /\ h' = parse_db_lines(<< line >>, h)
    /\ pc' = "parsed"
    /\ UNCHANGED <<line, ret, fbi, oob, pkg, q, run, res, seen>>

(* match_version(pkgversion, &e->v1) on the package and the first entry.   *)
MatchVersion ==
    /\ pc = "match"
    /\ q' = [res |-> match_version(pkg.version, h[1].v1)]
    /\ pc' = "matched"
    /\ UNCHANGED <<line, h, ret, fbi, oob, pkg, run, res, seen>>

(* The index and the query over every advisory list.                       *)
InitIndex ==
    /\ pc = "parsed"
    /\ line = << >>
    /\ h \in Databases
    /\ ret = << >>
    /\ fbi = zero_table
    /\ oob = FALSE
    /\ pkg = none
    /\ q = none
    /\ run = none
    /\ res = none
    /\ seen = {}

NextIndex == Preprocess \/ Query

SpecIndex == InitIndex /\ [][NextIndex]_vars

(* One advisory line parsed, indexed and queried.                          *)
InitParse ==
    /\ pc = "line"
    /\ line \in Lines
    /\ h = << >>
    /\ ret = << >>
    /\ fbi = zero_table
    /\ oob = FALSE
    /\ pkg = none
    /\ q = none
    /\ run = none
    /\ res = none
    /\ seen = {}

NextParse == ParseLine \/ Preprocess \/ Query

SpecParse == InitParse /\ [][NextParse]_vars

(* match_version over every package version and version entry.             *)
InitMatch ==
    /\ pc = "match"
    /\ line = << >>
    /\ \E v \in VersionEntries : h = << advisory(<< CH_a >>, v, absent) >>
    /\ ret = << >>
    /\ fbi = zero_table
    /\ oob = FALSE
    /\ \E v \in Versions : pkg = [name |-> << CH_a >>, version |-> v]
    /\ q = none
    /\ run = none
    /\ res = none
    /\ seen = {}

NextMatch == MatchVersion

SpecMatch == InitMatch /\ [][NextMatch]_vars

---------------------------------------------------------------------------
(* exec_audit, fetch_and_extract and parse_db with the handles they hold.  *)
(* res is [open, a, tmp]: the descriptors the process holds open besides   *)
(* the three standard streams, whether an archive reader is allocated,     *)
(* whether the temporary archive file exists.                              *)

(* Exit codes of sysexits.h and return codes of pkg.h.                     *)
EX_OK == 0
EX_USAGE == 64
EX_DATAERR == 65
EX_IOERR == 74
EX_CONFIG == 78
EPKG_OK == 0
EPKG_END == 1
EPKG_FATAL == 3

(* The most exec_audit runs, members of a fetched archive, and installed   *)
(* packages.                                                               *)
MaxRuns == 2
MaxMembers == 2
MaxPkgs == 2

(* The advisory files of the runs: one advisory with an upper bound, a     *)
(* file of one comment, two advisories.                                    *)
AuditFiles ==
    { << << CH_a, CH_LT, CH_2, PIPE, CH_a, PIPE, CH_b, NL >> >>,
      << << HASH, CH_a, NL >> >>,
      << << CH_b, PIPE, CH_a, PIPE, CH_b, NL >>,
         << CH_a, CH_EQ, CH_1, PIPE, CH_a, PIPE, CH_b, NL >> >> }

(* The packages of the runs and the lists pkgdb_query() iterates over.     *)
ExecPackages ==
    { [name |-> << CH_a >>, version |-> << CH_1 >>],
      [name |-> << CH_a >>, version |-> << CH_2 >>],
      [name |-> << CH_b >>, version |-> << CH_1 >>] }
Installed == UNION { [1..k -> ExecPackages] : k \in 0..MaxPkgs }

(* The descriptor open() or fopen() returns: the lowest one not open, the  *)
(* standard streams holding 0, 1 and 2.                                    *)
lowest_free(open) ==
    CHOOSE d \in 3..(3 + Cardinality(open)) :
        d \notin open /\ \A x \in 3..(d - 1) : x \in open

(* parse_db(path, &h) on a file fopen() opens (file is its lines) or does  *)
(* not: [retcode, h, res].  The stream it opened is still open when it     *)
(* returns.                                                                *)
parse_db(opens, file, head, r) ==
    IF ~opens THEN [retcode |-> EPKG_FATAL, h |-> head, res |-> r]
    ELSE [retcode |-> EPKG_OK,
          h |-> parse_db_lines(file, head),
          res |-> [r EXCEPT !.open = @ \cup {lowest_free(@)}]]

(* The locals of exec_audit and of the fetch_and_extract it calls, at the  *)
(* start of run n.  found counts the calls of is_vulnerable that returned  *)
(* true, failed tells that the run took an error path.                     *)
fresh_run(n) ==
    [n |-> n, fetch |-> FALSE, argc |-> 0, ret |-> EX_OK, vuln |-> 0,
     found |-> 0, failed |-> FALSE, installed |-> << >>, it |-> 0,
     a |-> FALSE, fd |-> -1, retcode |-> EPKG_FATAL, members |-> 0,
     status |-> -1]

(* return (status) from exec_audit, and exit(status) of err().             *)
Return(status, outcome) ==
    /\ pc' = "returned"
    /\ run' = [run EXCEPT !.status = status]
    /\ seen' = seen \cup { [outcome |-> outcome, status |-> status] }

(* pkg_config_string(PKG_CONFIG_DBDIR).                                    *)
ExecConfig ==
    /\ pc = "config"
    /\ \/ /\ pc' = "getopt"
          /\ UNCHANGED <<run, seen>>
       \/ Return(EX_CONFIG, "aborted")
    /\ UNCHANGED <<line, h, ret, fbi, oob, pkg, q, res>>

(* The getopt loop: -F sets fetch, an unknown option ends the run; argc is *)
(* what is left after the options.                                         *)
ExecGetopt ==
    /\ pc = "getopt"
    /\ \/ \E f \in BOOLEAN, n \in 0..3 :
             /\ run' = [run EXCEPT !.fetch = f, !.argc = n]
             /\ pc' = IF f THEN "fetch_site" ELSE "args"
             /\ UNCHANGED seen
       \/ Return(EX_USAGE, "usage")
    /\ UNCHANGED <<line, h, ret, fbi, oob, pkg, q, res>>

(* pkg_config_string(PKG_CONFIG_PORTAUDIT_SITE) before the fetch.          *)
ExecFetchSite ==
    /\ pc = "fetch_site"
    /\ \/ /\ pc' = "fetch_file"
          /\ UNCHANGED <<run, seen>>
       \/ Return(EX_CONFIG, "aborted")
    /\ UNCHANGED <<line, h, ret, fbi, oob, pkg, q, res>>

(* fetch_and_extract: pkg_fetch_file() into the temporary file.  On        *)
(* EPKG_OK the temporary file exists; otherwise it may or may not.         *)
FetchFile ==
    /\ pc = "fetch_file"
    /\ \/ /\ pc' = "fetch_archive"
          /\ res' = [res EXCEPT !.tmp = TRUE]
          /\ run' = [run EXCEPT !.a = FALSE, !.fd = -1, !.retcode = EPKG_FATAL]
       \/ \E t \in BOOLEAN, uptodate \in BOOLEAN :
             /\ pc' = "fetch_cleanup"
             /\ res' = [res EXCEPT !.tmp = @ \/ t]
             /\ run' = [run EXCEPT !.a = FALSE, !.fd = -1,
                           !.retcode = IF uptodate THEN EPKG_OK ELSE EPKG_FATAL]
    /\ UNCHANGED <<line, h, ret, fbi, oob, pkg, q, seen>>

(* archive_read_new() and archive_read_open_filename(); the archive holds  *)
(* some number of members.                                                 *)
FetchArchive ==
    /\ pc = "fetch_archive"
    /\ res' = [res EXCEPT !.a = TRUE]
    /\ \/ \E m \in 0..MaxMembers :
             /\ run' = [run EXCEPT !.a = TRUE, !.members = m]
             /\ pc' = "fetch_header"
       \/ /\ run' = [run EXCEPT !.a = TRUE]
          /\ pc' = "fetch_cleanup"
    /\ UNCHANGED <<line, h, ret, fbi, oob, pkg, q, seen>>

(* archive_read_next_header(): ARCHIVE_OK while members are left, and the  *)
(* loop ends with retcode = EPKG_OK on anything else.                      *)
FetchHeader ==
    /\ pc = "fetch_header"
    /\ \/ /\ run.members > 0
          /\ run' = [run EXCEPT !.members = @ - 1]
          /\ pc' = "fetch_open"
       \/ /\ run' = [run EXCEPT !.retcode = EPKG_OK]
          /\ pc' = "fetch_cleanup"
    /\ UNCHANGED <<line, h, ret, fbi, oob, pkg, q, res, seen>>

(* fd = open(dest, O_RDWR|O_CREAT|O_TRUNC): the descriptor of the member   *)
(* before, if any, is overwritten.                                         *)
FetchOpen ==
    /\ pc = "fetch_open"
    /\ \/ /\ run' = [run EXCEPT !.fd = lowest_free(res.open)]
          /\ res' = [res EXCEPT !.open = @ \cup {lowest_free(@)}]
          /\ pc' = "fetch_data"
       \/ /\ run' = [run EXCEPT !.fd = -1]
          /\ pc' = "fetch_cleanup"
          /\ UNCHANGED res
    /\ UNCHANGED <<line, h, ret, fbi, oob, pkg, q, seen>>

(* archive_read_data_into_fd().                                            *)
FetchData ==
    /\ pc = "fetch_data"
    /\ \/ pc' = "fetch_header"
       \/ pc' = "fetch_cleanup"
    /\ UNCHANGED <<line, h, ret, fbi, oob, pkg, q, run, res, seen>>

(* cleanup: unlink(tmp), archive_read_free(a) if a != NULL, close(fd) if   *)
(* fd > 0; then exec_audit returns EX_IOERR unless retcode is EPKG_OK.     *)
FetchCleanup ==
    /\ pc = "fetch_cleanup"
    /\ res' = [res EXCEPT !.tmp = FALSE,
                          !.a = IF run.a THEN FALSE ELSE @,
                          !.open = IF run.fd > 0 THEN @ \ {run.fd} ELSE @]
    /\ IF run.retcode = EPKG_OK
       THEN /\ pc' = "args"
            /\ UNCHANGED <<run, seen>>
       ELSE Return(EX_IOERR, "aborted")
    /\ UNCHANGED <<line, h, ret, fbi, oob, pkg, q>>

(* argc > 2 is a usage error; argc == 1 audits the package named on the    *)
(* command line; otherwise the installed packages are audited.             *)
ExecArgs ==
    /\ pc = "args"
    /\ IF run.argc > 2 THEN Return(EX_USAGE, "usage")
       ELSE /\ pc' = IF run.argc = 1 THEN "adhoc" ELSE "opendb"
            /\ UNCHANGED <<run, seen>>
    /\ UNCHANGED <<line, h, ret, fbi, oob, pkg, q, res>>

(* The name-version argument: err(EX_USAGE) without a '-', else the        *)
(* package is built from the two parts.                                    *)
ExecAdhocName ==
    /\ pc = "adhoc"
    /\ \/ /\ Return(EX_USAGE, "usage")
          /\ UNCHANGED pkg
       \/ \E p \in ExecPackages :
             /\ pkg' = p
             /\ pc' = "parse"
             /\ UNCHANGED <<run, seen>>
    /\ UNCHANGED <<line, h, ret, fbi, oob, q, res>>

(* parse_db(audit_file, &h): EX_DATAERR and cleanup when it fails.         *)
ExecParse ==
    /\ pc = "parse"
    /\ \E opens \in BOOLEAN, file \in AuditFiles :
          LET r == parse_db(opens, file, h, res) IN
          /\ h' = r.h
          /\ res' = r.res
          /\ IF r.retcode # EPKG_OK
             THEN /\ run' = [run EXCEPT !.ret = EX_DATAERR, !.failed = TRUE]
                  /\ pc' = "cleanup"
             ELSE /\ pc' = "preprocess"
                  /\ UNCHANGED run
    /\ UNCHANGED <<line, ret, fbi, oob, pkg, q, seen>>

(* cooked_audit_entries = preprocess_db(&h).                               *)
ExecPreprocess ==
    /\ pc = "preprocess"
    /\ \E char_signed \in BOOLEAN : \E r \in preprocess_db(h, char_signed) :
          /\ ret' = r.ret
          /\ fbi' = r.fbi
          /\ oob' = (oob \/ r.oob)
          /\ pc' = IF r.crashed THEN "crashed"
                   ELSE IF run.argc = 1 THEN "adhoc_query" ELSE "next"
    /\ UNCHANGED <<line, h, pkg, q, run, res, seen>>

(* is_vulnerable(cooked_audit_entries, pkg), its value dropped, and        *)
(* goto cleanup.                                                           *)
ExecAdhocQuery ==
    /\ pc = "adhoc_query"
    /\ \E char_signed \in BOOLEAN :
          \E r \in is_vulnerable(h, ret, fbi, pkg, char_signed) :
             /\ q' = r
             /\ oob' = (oob \/ r.oob)
             /\ run' = [run EXCEPT !.found = IF r.res THEN @ + 1 ELSE @]
    /\ pc' = "cleanup"
    /\ UNCHANGED <<line, h, ret, fbi, pkg, res, seen>>

(* pkgdb_open(): when it fails, EX_IOERR for root and EX_OK for any other  *)
(* user.                                                                   *)
ExecOpenDb ==
    /\ pc = "opendb"
    /\ \/ /\ pc' = "querydb"
          /\ UNCHANGED <<run, seen>>
       \/ \E root \in BOOLEAN :
             Return(IF root THEN EX_IOERR ELSE EX_OK, "aborted")
    /\ UNCHANGED <<line, h, ret, fbi, oob, pkg, q, res>>

(* pkgdb_query(db, NULL, MATCH_ALL): an iterator over the installed        *)
(* packages, or NULL.                                                      *)
ExecQueryDb ==
    /\ pc = "querydb"
    /\ \/ \E inst \in Installed :
             /\ run' = [run EXCEPT !.installed = inst, !.it = 0]
             /\ pc' = "parse"
       \/ /\ run' = [run EXCEPT !.ret = EX_IOERR, !.failed = TRUE]
          /\ pc' = "cleanup"
    /\ UNCHANGED <<line, h, ret, fbi, oob, pkg, q, res, seen>>

(* One turn of while ((ret = pkgdb_it_next()) == EPKG_OK): the next        *)
(* package is checked and counted, or the loop ends with EPKG_END or with  *)
(* an error code.                                                          *)
ExecNext ==
    /\ pc = "next"
    /\ \/ /\ run.it < Len(run.installed)
          /\ pkg' = run.installed[run.it + 1]
          /\ \E char_signed \in BOOLEAN :
                \E r \in is_vulnerable(h, ret, fbi, pkg', char_signed) :
                   /\ q' = r
                   /\ oob' = (oob \/ r.oob)
                   /\ run' = [run EXCEPT !.it = @ + 1, !.ret = EPKG_OK,
                                 !.vuln = IF r.res THEN @ + 1 ELSE @,
                                 !.found = IF r.res THEN @ + 1 ELSE @]
          /\ pc' = "next"
       \/ /\ run.it = Len(run.installed)
          /\ run' = [run EXCEPT !.ret = EPKG_END]
          /\ pc' = "summary"
          /\ UNCHANGED <<pkg, q, oob>>
       \/ /\ run' = [run EXCEPT !.ret = EPKG_FATAL, !.failed = TRUE]
          /\ pc' = "summary"
          /\ UNCHANGED <<pkg, q, oob>>
    /\ UNCHANGED <<line, h, ret, fbi, res, seen>>

(* if (ret == EPKG_END && vuln == 0) ret = EX_OK, and the summary line.    *)
ExecSummary ==
    /\ pc = "summary"
    /\ run' = [run EXCEPT !.ret = IF @ = EPKG_END /\ run.vuln = 0 THEN EX_OK ELSE @]
    /\ pc' = "cleanup"
    /\ UNCHANGED <<line, h, ret, fbi, oob, pkg, q, res, seen>>

(* cleanup: the iterator, the database, the package and the list are       *)
(* freed, and ret is returned.                                             *)
ExecCleanup ==
    /\ pc = "cleanup"
    /\ Return(run.ret, IF run.failed THEN "aborted"
                       ELSE IF run.found > 0 THEN "vulnerable" ELSE "clean")
    /\ h' = << >>
    /\ UNCHANGED <<line, ret, fbi, oob, pkg, q, res>>

(* The next run of exec_audit, with the handles the one before left.       *)
Restart ==
    /\ pc = "returned"
    /\ run.n < MaxRuns
    /\ run' = fresh_run(run.n + 1)
    /\ pc' = "config"
    /\ h' = << >>
    /\ ret' = << >>
    /\ fbi' = zero_table
    /\ oob' = FALSE
    /\ pkg' = none
    /\ q' = none
    /\ UNCHANGED <<line, res, seen>>

InitExec ==
    /\ pc = "config"
    /\ line = << >>
    /\ h = << >>
    /\ ret = << >>
    /\ fbi = zero_table
    /\ oob = FALSE
    /\ pkg = none
    /\ q = none
    /\ run = fresh_run(1)
    /\ res = [open |-> {}, a |-> FALSE, tmp |-> FALSE]
    /\ seen = {}

NextExec ==
    \/ ExecConfig \/ ExecGetopt \/ ExecFetchSite
    \/ FetchFile \/ FetchArchive \/ FetchHeader \/ FetchOpen \/ FetchData
    \/ FetchCleanup
    \/ ExecArgs \/ ExecAdhocName \/ ExecParse \/ ExecPreprocess
    \/ ExecAdhocQuery \/ ExecOpenDb \/ ExecQueryDb \/ ExecNext
    \/ ExecSummary \/ ExecCleanup \/ Restart

SpecExec == InitExec /\ [][NextExec]_vars

---------------------------------------------------------------------------
(* Reference notions the properties are stated with.                       *)

Indexed == pc \in {"indexed", "queried"}

(* The literal prefix of a name pattern.                                   *)
literal_prefix(name) == SubSeq(name, 1, str_noglob_len(name))

(* The literal prefix of the entry in slot k of the sorted array.          *)
key(k) == literal_prefix(h[ret[k].e].pkgname)

(* x sorts before y: x is a strict prefix of y, or x has the smaller byte  *)
(* at the first position where they differ.                                *)
key_less(x, y) ==
    \E k \in 0..Len(x) :
        /\ k <= Len(y)
        /\ \A j \in 1..k : x[j] = y[j]
        /\ \/ (k = Len(x) /\ k < Len(y))
           \/ (k < Len(x) /\ k < Len(y) /\ x[k + 1] < y[k + 1])

key_cmp(x, y) == IF key_less(x, y) THEN -1 ELSE IF key_less(y, x) THEN 1 ELSE 0

(* What a scan of the whole list reports for a package: every entry whose  *)
(* pattern matches the name and whose two bound checks return true.        *)
linear_scan(H, p) ==
    { i \in 1..Len(H) :
        /\ fnmatch(H[i].pkgname, p.name) = 0
        /\ match_version(p.version, H[i].v1)
        /\ match_version(p.version, H[i].v2) }

(* The results the comparator of a bound allows.                           *)
allowed(type) ==
    CASE type = LT  -> {-1}
      [] type = LTE -> {-1, 0}
      [] type = EQ  -> {0}
      [] type = GT  -> {1}
      [] type = GTE -> {0, 1}
      [] OTHER      -> {}

---------------------------------------------------------------------------
(* C1: the query over the index reports exactly the entries a scan of the  *)
(* whole list reports, for every list and every package, patterns that     *)
(* start with a globbing character included.                               *)
C1_QueryIsLinearScan ==
    pc = "queried" => q.reported = linear_scan(h, pkg)

(* C2: match_version returns true for an absent bound, and for a present   *)
(* bound exactly when the result of the three-way comparison of the        *)
(* package version with the bound's value is one its comparator allows.    *)
C2_MatchVersionTable ==
    pc = "matched" =>
        q.res = (\/ h[1].v1.version = NULL
                 \/ pkg_version_cmp(pkg.version, h[1].v1.version)
                        \in allowed(h[1].v1.type))

C2_Witness ==
    /\ pc = "matched"
    /\ h[1].v1.version # NULL
    /\ h[1].v1.type = GTE
    /\ pkg_version_cmp(pkg.version, h[1].v1.version) = 0
    /\ q.res

(* C4: with no entry, building the index and querying reads and writes     *)
(* nothing outside the one allocated element, ends without an error and    *)
(* reports nothing.                                                        *)
C4_EmptyDatabaseInBounds ==
    (Len(h) = 0 /\ pc \in {"indexed", "queried", "crashed"}) =>
        /\ ~oob
        /\ pc # "crashed"
        /\ pc = "queried" => (~q.res /\ q.reported = {})

(* The slots first..last of the sorted array form a maximal run of entries *)
(* with the same literal prefix.                                           *)
maximal_run(first, last) ==
    /\ \A k \in first..last : key(k) = key(first)
    /\ first > 0 => key(first - 1) # key(first)
    /\ last < Len(h) - 1 => key(last + 1) # key(first)

(* C8: after preprocess_db the next_pfx_incr of the first element of every *)
(* maximal run of entries with the same literal prefix is the length of    *)
(* the run.                                                                *)
C8_FirstOfRunHoldsRunLength ==
    (Indexed /\ Len(h) >= 1) =>
        \A first, last \in 0..(Len(h) - 1) :
            (first <= last /\ maximal_run(first, last))
                => ret[first].next_pfx_incr = last - first + 1

(* C9: after preprocess_db the sorted array is a permutation of the        *)
(* entries ending in the sentinel, in ascending order of the literal       *)
(* prefix (a strict prefix before its extensions); audit_entry_compare is  *)
(* the three-way comparison of the literal prefixes, so a total preorder;  *)
(* and entries with the same literal prefix are contiguous.                *)
C9_SortedByLiteralPrefix ==
    Indexed =>
        LET N == Len(h) IN
        /\ DOMAIN ret = 0..N
        /\ ret[N].e = 0
        /\ { ret[k].e : k \in 0..(N - 1) } = 1..N
        /\ \A k \in 0..(N - 1) :
              ret[k].noglob_len = str_noglob_len(h[ret[k].e].pkgname)
        /\ \A k \in 0..(N - 2) :
              /\ audit_entry_compare(h, ret[k], ret[k + 1]) <= 0
              /\ ~key_less(key(k + 1), key(k))
        /\ \A i, j \in 0..(N - 1) :
              audit_entry_compare(h, ret[i], ret[j]) = key_cmp(key(i), key(j))
        /\ \A i, j, k \in 0..(N - 1) :
              (i < j /\ j < k /\ key(i) = key(k)) => key(j) = key(i)

C9_Witness ==
    /\ pc = "indexed"
    /\ Len(h) >= 3
    /\ \E i, j \in 0..(Len(h) - 1) : i < j /\ key(i) = key(j)
    /\ \E k \in 0..(Len(h) - 2) :
          /\ Len(key(k)) < Len(key(k + 1))
          /\ key_less(key(k), key(k + 1))
          /\ key(k) = SubSeq(key(k + 1), 1, Len(key(k)))

(* C10: with at least one entry the scan of is_vulnerable stays inside the *)
(* array for every package name: the scan starts at the first-byte         *)
(* position of the name, every first-byte position is at most n, every     *)
(* position p < n has next_pfx_incr >= 1 and p + next_pfx_incr <= n, the   *)
(* positions of a scan strictly increase, every slot the inner loop reads  *)
(* holds a real entry, and the scan ends within n steps.                   *)
C10_ScanStaysInArray ==
    (Len(h) >= 1 /\ pc \in {"indexed", "queried", "crashed"}) =>
        LET N == Len(h) IN
        /\ pc # "crashed"
        /\ ~oob
        /\ \A b \in 0..255 : table_at(fbi, b) <= N
        /\ \A p \in 0..(N - 1) :
              ret[p].next_pfx_incr >= 1 /\ p + ret[p].next_pfx_incr <= N
        /\ pc = "queried" =>
              /\ ~q.wild
              /\ q.start <= N
              /\ ~q.oob
              /\ ~q.overrun
              /\ Len(q.visited) <= N
              /\ \A k \in 1..Len(q.visited) : q.visited[k] < N
              /\ \A k \in 1..(Len(q.visited) - 1) : q.visited[k] < q.visited[k + 1]
              /\ q.inspected \subseteq 0..(N - 1)

---------------------------------------------------------------------------
(* The name_spec grammar, <name>[<cmp><version>[<cmp><version>]], read     *)
(* off a field on its own.                                                 *)

Parsed == pc \in {"parsed", "indexed", "queried", "crashed"}

is_comment(l) == l[1] = HASH
pipe_count(l) == Cardinality({ i \in 1..Len(l) : l[i] = PIPE })

(* The name_spec field of a line: the bytes before its first '|'.          *)
name_spec(l) ==
    LET ps == { i \in 1..Len(l) : l[i] = PIPE }
    IN  IF ps = {} THEN l
        ELSE SubSeq(l, 1, (CHOOSE i \in ps : \A j \in ps : i <= j) - 1)

(* The comparator token at place i of a field (1-based): its type and      *)
(* length, length 0 when no token starts there.                            *)
token(f, i) ==
    LET two == i < Len(f) /\ f[i + 1] = CH_EQ
    IN  IF f[i] = CH_LT THEN (IF two THEN [type |-> LTE, len |-> 2]
                                     ELSE [type |-> LT, len |-> 1])
        ELSE IF f[i] = CH_GT THEN (IF two THEN [type |-> GTE, len |-> 2]
                                          ELSE [type |-> GT, len |-> 1])
        ELSE IF f[i] = CH_EQ THEN [type |-> EQ, len |-> 1]
        ELSE [type |-> 0, len |-> 0]

(* The tokens of a field from place i on, left to right: [at, type, len].  *)
RECURSIVE tokens_from(_, _)
tokens_from(f, i) ==
    IF i > Len(f) THEN << >>
    ELSE LET t == token(f, i)
         IN  IF t.len = 0 THEN tokens_from(f, i + 1)
             ELSE << [at |-> i, type |-> t.type, len |-> t.len] >>
                  \o tokens_from(f, i + t.len)

tokens(f) == tokens_from(f, 1)

(* The bound of the k-th token of a field: the text up to the next token   *)
(* or the end of the field, with the token's comparator; absent when the   *)
(* field has fewer tokens.                                                 *)
field_bound(f, k) ==
    LET ts == tokens(f)
    IN  IF k > Len(ts) THEN absent
        ELSE bound(ts[k].type,
                   SubSeq(f, ts[k].at + ts[k].len,
                          IF k < Len(ts) THEN ts[k + 1].at - 1 ELSE Len(f)))

(* The name pattern of a field: the text before its first token.           *)
field_name(f) ==
    IF tokens(f) = << >> THEN f ELSE SubSeq(f, 1, tokens(f)[1].at - 1)

(* C3: for a line name_spec|url|description the entry's name pattern and   *)
(* two bounds are those of the name_spec field alone, whatever the url and *)
(* description fields hold.                                                *)
C3_NameSpecAloneDecides ==
    (Parsed /\ ~is_comment(line) /\ pipe_count(line) >= 2
        /\ Len(tokens(name_spec(line))) <= 2) =>
        /\ Len(h) = 1
        /\ h[1].pkgname = field_name(name_spec(line))
        /\ h[1].v1 = field_bound(name_spec(line), 1)
        /\ h[1].v2 = field_bound(name_spec(line), 2)

(* C5: the entry of a line without '|' is reported for no package with a  *)
(* non-empty name, whatever its version, and the query of such a package   *)
(* hands no NULL string to the report.                                     *)
C5_NoSeparatorLineNeverMatches ==
    (pc = "queried" /\ ~is_comment(line) /\ pipe_count(line) = 0
        /\ pkg.name # << >>) => (q.reported = {} /\ ~q.nullarg)

---------------------------------------------------------------------------
(* The three outcomes of a run the exit status is to tell apart.           *)
Outcomes == {"clean", "vulnerable", "aborted"}

(* C6: over the finished runs, bulk or single-package, no two of the       *)
(* outcomes "completed with no vulnerable package", "completed with one    *)
(* or more" and "aborted on a configuration, I/O or data error" have the   *)
(* same status.                                                            *)
C6_StatusTellsOutcomesApart ==
    \A x, y \in seen :
        (x.outcome \in Outcomes /\ y.outcome \in Outcomes
            /\ x.outcome # y.outcome) => x.status # y.status

(* C7: whenever fetch_and_extract or parse_db has returned, every          *)
(* descriptor, stream and archive reader it opened is released and the     *)
(* temporary archive is removed, after any number of runs.                 *)
C7_NothingLeftOpen ==
    pc \notin {"fetch_archive", "fetch_header", "fetch_open", "fetch_data",
               "fetch_cleanup"}
        => (res.open = {} /\ ~res.a /\ ~res.tmp)

=============================================================================
